---------------------------- MODULE Spec2Model ----------------------------
(***************************************************************************)
(* PlanByWeather: the "recommend" Edge Function.                           *)
(*                                                                         *)
(* One request travels through the Deno.serve handler: request checks,     *)
(* the weather fetch, the optional model call with its one-shot fallback,  *)
(* and the response.  The pure helpers (clampInt, ruleHintsFromWeather,    *)
(* fallbackRecommendations, the mapping inside callOpenAI) are operators.  *)
(*                                                                         *)
(* JavaScript numbers are fixed-point records [nan, v]: v counts steps of  *)
(* 1/Scale, nan marks NaN.  JSON values read from a body are records       *)
(* [k, n, s] (kind, number, string).  String literals of the source that   *)
(* hold typographic quotes or dashes are written with their ASCII forms.   *)
(***************************************************************************)
EXTENDS Integers, Sequences, FiniteSets, TLC

VARIABLES
    env,             \* Deno.env: WEATHER_API_KEY, OPENAI_API_KEY
    pc,              \* where the handler of the request stands
    req,             \* the HTTP request: method and body
    city,            \* const city (trimmed)
    weatherRes,      \* the reply of api.openweathermap.org, once it arrived
    weather,         \* const weather: <<>> or <<snapshot>>
    modelRes,        \* the reply of api.openai.com, once it arrived
    recommendations, \* let recommendations
    resp,            \* the Response returned to the caller
    weatherCalls,    \* invocations of fetchOpenWeather in this request
    openaiCalls,     \* invocations of callOpenAI in this request
    fallbackCalls,   \* invocations of fallbackRecommendations in this request
    ui,              \* the App component: its React state and its pending invoke
    conc             \* the locals of each of several handlers running at once

\* the variables of the one handler
hvars == <<env, pc, req, city, weatherRes, weather, modelRes, recommendations,
           resp, weatherCalls, openaiCalls, fallbackCalls>>

vars == <<hvars, ui, conc>>

-----------------------------------------------------------------------------
(* Bounds of the model *)

Scale == 2        \* steps per unit of a number (2: halves)
MaxCityLen == 2   \* longest city string a request carries
MaxRecs == 9      \* longest `recommendations` array the model returns

-----------------------------------------------------------------------------
(* JavaScript numbers *)

NaN == [nan |-> TRUE, v |-> 0]
Fix(x) == [nan |-> FALSE, v |-> x]
Num(i) == Fix(i * Scale)

IsFinite(a) == ~a.nan
Lt(a, b) == ~a.nan /\ ~b.nan /\ a.v < b.v
Gt(a, b) == ~a.nan /\ ~b.nan /\ a.v > b.v

MathMax(a, b) == IF a.nan \/ b.nan THEN NaN ELSE IF a.v >= b.v THEN a ELSE b
MathMin(a, b) == IF a.nan \/ b.nan THEN NaN ELSE IF a.v <= b.v THEN a ELSE b
\* Math.round: to the nearest integer, a tie towards +Infinity.
MathRound(a) == IF a.nan THEN NaN ELSE Num((2 * a.v + Scale) \div (2 * Scale))

-----------------------------------------------------------------------------
(* Strings *)

IsSpace(c) == c \in {" ", "\t", "\n"}

RECURSIVE TrimStart(_)
TrimStart(s) ==
    IF Len(s) > 0 /\ IsSpace(SubSeq(s, 1, 1))
    THEN TrimStart(SubSeq(s, 2, Len(s)))
    ELSE s

RECURSIVE TrimEnd(_)
TrimEnd(s) ==
    IF Len(s) > 0 /\ IsSpace(SubSeq(s, Len(s), Len(s)))
    THEN TrimEnd(SubSeq(s, 1, Len(s) - 1))
    ELSE s

\* String.prototype.trim
Trim(s) == TrimEnd(TrimStart(s))

\* String.prototype.slice(0, n)
Slice0(s, n) == IF Len(s) <= n THEN s ELSE SubSeq(s, 1, n)

UpperLetters == "ABCDEFGHIJKLMNOPQRSTUVWXYZ"
LowerLetters == "abcdefghijklmnopqrstuvwxyz"

LowerChar(c) ==
    IF \E i \in 1..26 : SubSeq(UpperLetters, i, i) = c
    THEN LET i == CHOOSE j \in 1..26 : SubSeq(UpperLetters, j, j) = c
         IN  SubSeq(LowerLetters, i, i)
    ELSE c

RECURSIVE ToLower(_)
ToLower(s) ==
    IF Len(s) = 0 THEN s
    ELSE LowerChar(SubSeq(s, 1, 1)) \o ToLower(SubSeq(s, 2, Len(s)))

Contains(s, sub) ==
    \E i \in 1..(Len(s) - Len(sub) + 1) : SubSeq(s, i, i + Len(sub) - 1) = sub

Digits == "0123456789"
IsDigit(c) == \E i \in 1..10 : SubSeq(Digits, i, i) = c
DigitVal(c) == (CHOOSE i \in 1..10 : SubSeq(Digits, i, i) = c) - 1

RECURSIVE DecimalValue(_)
DecimalValue(s) ==
    IF Len(s) = 0 THEN 0
    ELSE 10 * DecimalValue(SubSeq(s, 1, Len(s) - 1)) + DigitVal(SubSeq(s, Len(s), Len(s)))

\* Number(string): blank is 0, a run of digits is its value, other text is NaN
\* (signs, fractions and exponents do not occur in the strings of this model).
StringToNumber(s) ==
    LET t == Trim(s)
    IN  IF Len(t) = 0 THEN Num(0)
        ELSE IF \A i \in 1..Len(t) : IsDigit(SubSeq(t, i, i)) THEN Num(DecimalValue(t))
        ELSE NaN

-----------------------------------------------------------------------------
(* JSON values as JavaScript reads them *)

Absent == [k |-> "absent", n |-> NaN, s |-> ""]     \* undefined: the key is missing
Null == [k |-> "null", n |-> NaN, s |-> ""]
JNum(a) == [k |-> "num", n |-> a, s |-> ""]
Str(s) == [k |-> "str", n |-> NaN, s |-> s]

\* ToBoolean
Truthy(j) ==
    CASE j.k = "num" -> ~j.n.nan /\ j.n.v # 0
      [] j.k = "str" -> Len(j.s) > 0
      [] OTHER -> FALSE

\* Number(x)
ToNumber(j) ==
    CASE j.k = "num" -> j.n
      [] j.k = "str" -> StringToNumber(j.s)
      [] j.k = "null" -> Num(0)
      [] OTHER -> NaN

\* String(x) for the kinds a text field holds in this model
JsString(j) ==
    CASE j.k = "str" -> j.s
      [] j.k = "null" -> "null"
      [] OTHER -> "undefined"

\* x ?? d
Coalesce(j, d) == IF j.k \in {"absent", "null"} THEN d ELSE j

-----------------------------------------------------------------------------
(* clampInt *)

clampInt(n, min, max) == MathMax(min, MathMin(max, MathRound(n)))

-----------------------------------------------------------------------------
(* Results of functions that may throw *)

Ok(v) == [ok |-> TRUE, err |-> "", value |-> v]
Throw(msg) == [ok |-> FALSE, err |-> msg, value |-> <<>>]

-----------------------------------------------------------------------------
(* fetchOpenWeather *)

\* a || b || "unknown"
FirstTruthy(a, b, d) == IF Truthy(a) THEN a ELSE IF Truthy(b) THEN b ELSE d

\* /rain|drizzle|storm|thunder/i.test(condition)
RainPattern(condition) ==
    LET c == ToLower(condition)
    IN  \E w \in {"rain", "drizzle", "storm", "thunder"} : Contains(c, w)

\* mutant: the finite check on tempC and windMps left out
fetchOpenWeather_noFiniteCheck(cityArg, r) ==
    IF r.kind # "json" THEN Throw("fetch failed")
    ELSE Ok([provider |-> "openweather", city |-> cityArg, tempC |-> ToNumber(r.temp),
             windMps |-> ToNumber(r.wind),
             condition |-> JsString(FirstTruthy(r.main, r.description, Str("unknown"))),
             isRainy |-> Len(r.rain) > 0])

\* r is the reply to fetch(url): r.kind says how far it got ("network": fetch
\* rejected, "status": !res.ok, "notjson": res.json() rejected, "json": parsed).
fetchOpenWeather(cityArg, r) ==
    IF r.kind = "network" THEN Throw("fetch failed")
    ELSE IF r.kind = "status" THEN Throw("Weather API error")
    ELSE IF r.kind = "notjson" THEN Throw("Unexpected token")
    ELSE
      LET tempC == ToNumber(r.temp)
          windMps == ToNumber(r.wind)
          condition == JsString(FirstTruthy(r.main, r.description, Str("unknown")))
          isRainy == (Len(r.rain) > 0 /\ (Truthy(r.rain[1].h1) \/ Truthy(r.rain[1].h3)))
                     \/ RainPattern(condition)
      IN  IF ~IsFinite(tempC) \/ ~IsFinite(windMps)
          THEN Throw("Weather API returned unexpected data shape.")
          ELSE Ok([provider |-> "openweather", city |-> cityArg, tempC |-> tempC,
                   windMps |-> windMps, condition |-> condition, isRainy |-> isRainy])

-----------------------------------------------------------------------------
(* ruleHintsFromWeather *)

ColdBelow == 8
HotAbove == 32
WindyAbove == 10

\* mutant: the cold note pushed before the rain note
ruleHintsFromWeather_coldFirst(w) ==
    LET tooCold == Lt(w.tempC, Num(ColdBelow))
        tooHot == Gt(w.tempC, Num(HotAbove))
        tooWindy == Gt(w.windMps, Num(WindyAbove))
    IN  [preferIndoor |-> w.isRainy \/ tooCold \/ tooHot \/ tooWindy,
         notes |-> (IF tooCold THEN <<"Soguk: uzun outdoor aktiviteleri azalt.">> ELSE <<>>)
                   \o (IF w.isRainy THEN <<"Yagis var: dis mekan onerilerini azalt.">> ELSE <<>>)
                   \o (IF tooHot THEN <<"Sicak: golge/klimali secenekleri artir.">> ELSE <<>>)
                   \o (IF tooWindy THEN <<"Ruzgarli: yuruyus/park yerine indoor agirlik ver.">> ELSE <<>>),
         flags |-> [tooCold |-> tooCold, tooHot |-> tooHot, tooWindy |-> tooWindy]]

\* mutant: the cold threshold taken inclusively
tooColdOf_inclusive(w) == ~Gt(w.tempC, Num(ColdBelow))

tooColdOf(w) == Lt(w.tempC, Num(ColdBelow))
tooHotOf(w) == Gt(w.tempC, Num(HotAbove))
tooWindyOf(w) == Gt(w.windMps, Num(WindyAbove))

ruleHintsFromWeather(w) ==
    LET tooCold == tooColdOf(w)
        tooHot == tooHotOf(w)
        tooWindy == tooWindyOf(w)
        preferIndoor == w.isRainy \/ tooCold \/ tooHot \/ tooWindy
        notes == (IF w.isRainy THEN <<"Yagis var: dis mekan onerilerini azalt.">> ELSE <<>>)
                 \o (IF tooCold THEN <<"Soguk: uzun outdoor aktiviteleri azalt.">> ELSE <<>>)
                 \o (IF tooHot THEN <<"Sicak: golge/klimali secenekleri artir.">> ELSE <<>>)
                 \o (IF tooWindy THEN <<"Ruzgarli: yuruyus/park yerine indoor agirlik ver.">> ELSE <<>>)
    IN  [preferIndoor |-> preferIndoor, notes |-> notes,
         flags |-> [tooCold |-> tooCold, tooHot |-> tooHot, tooWindy |-> tooWindy]]

-----------------------------------------------------------------------------
(* fallbackRecommendations *)

Rec(t, r, l, c) == [title |-> t, reason |-> r, label |-> l, confidence |-> c]

indoor == <<
    Rec("Coffee + a book", "Low effort, cozy, and weather-proof.", "indoor", Num(74)),
    Rec("Museum / gallery visit", "A solid 1-2 hour plan that doesn't depend on the weather.", "indoor", Num(70)),
    Rec("Cinema or a small event", "One of the safest picks when it's rainy or windy.", "indoor", Num(68)),
    Rec("Gym / short home workout", "If you want something active in a controlled environment.", "indoor", Num(66)),
    Rec("Try a new recipe", "A fun low-budget option you can do at home.", "indoor", Num(62)) >>

outdoor == <<
    Rec("Short walk + photos", "If the weather is okay, it's the simplest plan that feels good.", "outdoor", Num(74)),
    Rec("Park coffee break", "Keep it short to keep the risk low.", "outdoor", Num(70)),
    Rec("Bike ride / waterfront loop", "Great energy boost if the wind is not too strong.", "outdoor", Num(66)),
    Rec("Neighborhood walk (new route)", "Keep the scope small: 60-90 minutes.", "outdoor", Num(64)),
    Rec("Market run + a small detour", "Practical + a bit of fresh air.", "outdoor", Num(60)) >>

ConfMin == 0
ConfMax == 100
MixedMax == 7

\* place && place !== "either" ? place : null
userTargetOf(place) == IF Truthy(place) /\ place # Str("either") THEN place ELSE Null

\* mutant: the user's place left out of the target
targetOf_ignoresUser(preferIndoor, userTarget) ==
    IF preferIndoor THEN "indoor" ELSE "outdoor"

\* preferIndoor ? "indoor" : userTarget ?? "outdoor"
targetOf(preferIndoor, userTarget) ==
    IF preferIndoor THEN "indoor" ELSE JsString(Coalesce(userTarget, Str("outdoor")))

\* mutant: [...base, ...extras].slice(0, 6)
Take_oneLess(seq, n) == IF Len(seq) <= n - 1 THEN seq ELSE SubSeq(seq, 1, n - 1)

\* [...].slice(0, n) of an array
Take(seq, n) == IF Len(seq) <= n THEN seq ELSE SubSeq(seq, 1, n)

\* mutant: the warning text chosen from the condition text, not from isRainy
extrasOf_noteFromCondition(w) ==
    LET safetyNote == IF RainPattern(w.condition)
                      THEN "It's rainy--bring a jacket/umbrella and keep it short."
                      ELSE "Weather is not ideal--keep it short and flexible."
    IN  << Rec("Quick errand walk", safetyNote, "outdoor", Num(45)),
           Rec("Short cafe hop nearby", safetyNote, "outdoor", Num(42)) >>

\* mutant: one warning entry instead of two
extrasOf_one(w) ==
    << Rec("Quick errand walk",
           IF w.isRainy THEN "It's rainy--bring a jacket/umbrella and keep it short."
                        ELSE "Weather is not ideal--keep it short and flexible.",
           "outdoor", Num(45)) >>

extrasOf(w) ==
    LET safetyNote == IF w.isRainy
                      THEN "It's rainy--bring a jacket/umbrella and keep it short."
                      ELSE "Weather is not ideal--keep it short and flexible."
    IN  << Rec("Quick errand walk", safetyNote, "outdoor", Num(45)),
           Rec("Short cafe hop nearby", safetyNote, "outdoor", Num(42)) >>

fallbackRecommendations(w, place) ==
    LET preferIndoor == ruleHintsFromWeather(w).preferIndoor
        userTarget == userTargetOf(place)
        target == targetOf(preferIndoor, userTarget)
        pool == IF target = "indoor" THEN indoor ELSE outdoor
        base == [i \in 1..Len(pool) |->
                    [pool[i] EXCEPT !.confidence = clampInt(@, Num(ConfMin), Num(ConfMax))]]
    IN  IF preferIndoor /\ userTarget = Str("outdoor")
        THEN Take(base \o extrasOf(w), MixedMax)
        ELSE base

-----------------------------------------------------------------------------
(* callOpenAI *)

TitleMax == 60
ReasonMax == 140
DefaultConfidence == 50

\* mutant: only a missing label defaulted (r.label ?? "indoor")
MapItem_labelNullish(r) ==
    Rec(Slice0(JsString(Coalesce(r.title, Str(""))), TitleMax),
        Slice0(JsString(Coalesce(r.reason, Str(""))), ReasonMax),
        JsString(Coalesce(r.label, Str("indoor"))),
        clampInt(ToNumber(Coalesce(r.confidence, JNum(Num(DefaultConfidence)))),
                 Num(ConfMin), Num(ConfMax)))

\* mutant: the label of the model copied as it came
MapItem_labelCopied(r) ==
    Rec(Slice0(JsString(Coalesce(r.title, Str(""))), TitleMax),
        Slice0(JsString(Coalesce(r.reason, Str(""))), ReasonMax),
        JsString(r.label),
        clampInt(ToNumber(Coalesce(r.confidence, JNum(Num(DefaultConfidence)))),
                 Num(ConfMin), Num(ConfMax)))

\* One element of recs.map(...): reading a property of null throws a TypeError.
MapItem(r) ==
    Rec(Slice0(JsString(Coalesce(r.title, Str(""))), TitleMax),
        Slice0(JsString(Coalesce(r.reason, Str(""))), ReasonMax),
        IF r.label = Str("outdoor") THEN "outdoor" ELSE "indoor",
        clampInt(ToNumber(Coalesce(r.confidence, JNum(Num(DefaultConfidence)))),
                 Num(ConfMin), Num(ConfMax)))

\* rules: { preferIndoor, notes } of the payload sent to the model
promptRules(w) ==
    [preferIndoor |-> ruleHintsFromWeather(w).preferIndoor,
     notes |-> ruleHintsFromWeather(w).notes]

\* typeof data?.output_text === "string" ? data.output_text
\*                                       : data?.output?.[0]?.content?.[0]?.text
TextOf(r) == IF r.output_text.k = "str" THEN r.output_text ELSE r.nested

\* mutant: a `recommendations` that is no array read as an empty one
callOpenAI_noArrayCheck(r) ==
    IF r.kind # "json" THEN Throw("fetch failed")
    ELSE LET text == TextOf(r)
         IN  IF text.k # "str" \/ ~text.doc.parses THEN Throw("no JSON text")
             ELSE LET recs == text.doc.value.recs
                  IN  IF \E i \in 1..Len(recs.items) : recs.items[i].k = "null"
                      THEN Throw("Cannot read properties of null")
                      ELSE Ok([i \in 1..Len(recs.items) |-> MapItem(recs.items[i])])

\* r is the reply to fetch("https://api.openai.com/v1/responses"), r.kind as in
\* fetchOpenWeather.  A text field is [k, doc]: doc.parses says whether
\* JSON.parse accepts the text and doc.value is what it then returns.
callOpenAI(r) ==
    IF r.kind = "network" THEN Throw("fetch failed")
    ELSE IF r.kind = "status" THEN Throw("OpenAI error")
    ELSE IF r.kind = "notjson" THEN Throw("Unexpected token")
    ELSE
      LET text == TextOf(r)
      IN  IF text.k # "str" THEN Throw("OpenAI response did not contain JSON text.")
          ELSE IF ~text.doc.parses THEN Throw("Unexpected token")
          ELSE
            LET parsed == text.doc.value
                recs == IF parsed.k = "obj" THEN parsed.recs
                        ELSE [k |-> "absent", items |-> <<>>]
            IN  IF recs.k # "array" THEN Throw("OpenAI JSON missing recommendations array.")
                ELSE IF \E i \in 1..Len(recs.items) : recs.items[i].k = "null"
                     THEN Throw("Cannot read properties of null")
                     ELSE Ok([i \in 1..Len(recs.items) |-> MapItem(recs.items[i])])

-----------------------------------------------------------------------------
(* json(status, body) and the other responses *)

NoResp == [status |-> 0, kind |-> "none", error |-> "", city |-> "",
           weather |-> <<>>, recommendations |-> <<>>]

Preflight == [NoResp EXCEPT !.status = 204, !.kind = "empty"]

ErrorResp(status, msg) == [NoResp EXCEPT !.status = status, !.kind = "error", !.error = msg]

OkResp(c, w, recs) ==
    [status |-> 200, kind |-> "ok", error |-> "", city |-> c,
     weather |-> <<w>>, recommendations |-> recs]

-----------------------------------------------------------------------------
(* Requests the caller sends *)

CityChars == {" ", "I"}

RECURSIVE StringsUpTo(_)
StringsUpTo(n) ==
    IF n = 0 THEN {""}
    ELSE LET shorter == StringsUpTo(n - 1)
         IN  shorter \cup {s \o c : s \in shorter, c \in CityChars}

RawCities == {Absent, Null} \cup {Str(s) : s \in StringsUpTo(MaxCityLen)}

\* body.preferences: missing, or an object whose place is missing or a PlacePref
RawPrefs ==
    {[hasPrefs |-> FALSE, place |-> Absent]}
    \cup {[hasPrefs |-> TRUE, place |-> p] :
             p \in {Absent, Str("indoor"), Str("outdoor"), Str("either")}}

Body(parses, k, c, prefs) ==
    [parses |-> parses, k |-> k, city |-> c, hasPrefs |-> prefs.hasPrefs, place |-> prefs.place]

NoPrefs == [hasPrefs |-> FALSE, place |-> Absent]
BadBody == Body(FALSE, "null", Absent, NoPrefs)    \* req.json() rejects
NullBody == Body(TRUE, "null", Absent, NoPrefs)    \* the body is the JSON text null

Requests ==
    {[method |-> m, body |-> BadBody] : m \in {"OPTIONS", "GET", "POST"}}
    \cup {[method |-> "POST", body |-> NullBody]}
    \cup {[method |-> "POST", body |-> Body(TRUE, "obj", c, p)] :
             c \in RawCities, p \in RawPrefs}

NoRequest == [method |-> "", body |-> BadBody]

\* body.preferences?.place
placeOf(body) == IF body.k = "obj" /\ body.hasPrefs THEN body.place ELSE Absent

\* mutant: the city not trimmed
cityOf_noTrim(body) ==
    LET c == IF body.k = "obj" THEN body.city ELSE Absent
    IN  JsString(IF Truthy(c) THEN c ELSE Str(""))

\* String(body?.city || "").trim()
cityOf(body) ==
    LET c == IF body.k = "obj" THEN body.city ELSE Absent
    IN  Trim(JsString(IF Truthy(c) THEN c ELSE Str("")))

-----------------------------------------------------------------------------
(* Replies of api.openweathermap.org *)

NoRain == <<>>
Rain(h1, h3) == <<[h1 |-> h1, h3 |-> h3]>>

WeatherReply(kind, temp, wind, sky) ==
    [kind |-> kind, temp |-> temp, wind |-> wind,
     main |-> sky.main, description |-> sky.description, rain |-> sky.rain]

Sky(main, description, rain) == [main |-> main, description |-> description, rain |-> rain]

NoSky == Sky(Absent, Absent, NoRain)

Skies ==
    { Sky(Str("Clear"), Str("clear sky"), NoRain),
      Sky(Str("Rain"), Str("light rain"), Rain(JNum(Fix(1)), Absent)),
      Sky(Str("Clouds"), Absent, Rain(Absent, JNum(Num(1)))),
      Sky(Absent, Str("Thunderstorm nearby"), NoRain),
      Sky(Absent, Absent, Rain(JNum(Num(0)), Absent)) }

RawTemps ==
    { JNum(Fix(ColdBelow * Scale - 1)), JNum(Num(ColdBelow)),
      JNum(Num(HotAbove)), JNum(Fix(HotAbove * Scale + 1)),
      Str("21"), Null, Absent, Str("n/a") }

RawWinds == { JNum(Num(WindyAbove)), JNum(Fix(WindyAbove * Scale + 1)), Absent }

NoWeatherReply == WeatherReply("none", Absent, Absent, NoSky)

WeatherReplies ==
    {WeatherReply(k, Absent, Absent, NoSky) : k \in {"network", "status", "notjson"}}
    \cup {WeatherReply("json", t, w, sky) : t \in RawTemps, w \in RawWinds, sky \in Skies}

-----------------------------------------------------------------------------
(* Replies of api.openai.com *)

Item(title, reason, label, confidence) ==
    [k |-> "obj", title |-> title, reason |-> reason, label |-> label,
     confidence |-> confidence]

GoodItem == Item(Str("Visit the aquarium"), Str("Indoors and calm, good for a grey day."),
                 Str("indoor"), JNum(Num(80)))

NullItem == [GoodItem EXCEPT !.k = "null"]

RECURSIVE Repeat(_, _)
Repeat(s, n) ==
    IF n = 0 THEN ""
    ELSE LET half == Repeat(s, n \div 2)
         IN  half \o half \o (IF n % 2 = 1 THEN s ELSE "")

ItemVariants ==
    { [GoodItem EXCEPT !.title = Absent],
      [GoodItem EXCEPT !.title = Str(Repeat("x", TitleMax + 1))],
      [GoodItem EXCEPT !.reason = Absent],
      [GoodItem EXCEPT !.reason = Str(Repeat("y", ReasonMax + 1))],
      [GoodItem EXCEPT !.label = Absent],
      [GoodItem EXCEPT !.label = Str("either")],
      [GoodItem EXCEPT !.label = Str("Outdoor")],
      [GoodItem EXCEPT !.label = Str("outdoor")],
      [GoodItem EXCEPT !.confidence = JNum(Num(0 - 5))],
      [GoodItem EXCEPT !.confidence = JNum(Num(150))],
      [GoodItem EXCEPT !.confidence = JNum(Fix(72 * Scale + 1))],
      [GoodItem EXCEPT !.confidence = Absent],
      [GoodItem EXCEPT !.confidence = Null],
      [GoodItem EXCEPT !.confidence = Str("70")],
      [GoodItem EXCEPT !.confidence = Str("high")],
      NullItem }

NoRecs == [k |-> "absent", items |-> <<>>]
Parsed(k, recs) == [k |-> k, recs |-> recs]
Doc(parses, value) == [parses |-> parses, value |-> value]

NoText == [k |-> "absent", doc |-> Doc(FALSE, Parsed("null", NoRecs))]
NumberText == [NoText EXCEPT !.k = "num"]
Text(doc) == [k |-> "str", doc |-> doc]
ArrayText(items) == Text(Doc(TRUE, Parsed("obj", [k |-> "array", items |-> items])))

ModelReply(kind, output_text, nested) ==
    [kind |-> kind, output_text |-> output_text, nested |-> nested]

NoModelReply == ModelReply("none", NoText, NoText)

MinItems == 5
MaxItems == 8

ModelReplies ==
    {ModelReply(k, NoText, NoText) : k \in {"network", "status", "notjson"}}
    \cup { ModelReply("json", NoText, NoText),
           ModelReply("json", NumberText, NoText),
           ModelReply("json", Text(Doc(FALSE, Parsed("null", NoRecs))), NoText),
           ModelReply("json", Text(Doc(TRUE, Parsed("null", NoRecs))), NoText),
           ModelReply("json", Text(Doc(TRUE, Parsed("obj", NoRecs))), NoText),
           ModelReply("json", Text(Doc(TRUE, Parsed("obj", [k |-> "other", items |-> <<>>]))), NoText),
           ModelReply("json", NoText, ArrayText([i \in 1..MinItems |-> GoodItem])) }
    \cup {ModelReply("json", ArrayText([i \in 1..n |-> GoodItem]), NoText) : n \in 0..MaxRecs}
    \cup {ModelReply("json", ArrayText(<<v>> \o [i \in 1..(MinItems - 1) |-> GoodItem]), NoText) :
             v \in ItemVariants}

-----------------------------------------------------------------------------
(* The Deno.serve handler *)

HandlerInit ==
    /\ env \in [WEATHER_API_KEY : {"", "wk"}, OPENAI_API_KEY : {"", "sk"}]
    /\ pc = "idle"
    /\ req = NoRequest
    /\ city = ""
    /\ weatherRes = NoWeatherReply
    /\ weather = <<>>
    /\ modelRes = NoModelReply
    /\ recommendations = <<>>
    /\ resp = NoResp
    /\ weatherCalls = 0
    /\ openaiCalls = 0
    /\ fallbackCalls = 0

\* A request reaches the function; the handler's locals are fresh.
Arrive(r) ==
    /\ pc = "idle"
    /\ pc' = "received"
    /\ req' = r
    /\ UNCHANGED <<env, city, weatherRes, weather, modelRes, recommendations, resp,
                   weatherCalls, openaiCalls, fallbackCalls>>

Return(r) ==
    /\ resp' = r
    /\ pc' = "done"

\* From the top of the handler to its first return or to the weather fetch.
Receive ==
    /\ pc = "received"
    /\ IF req.method = "OPTIONS" THEN
           /\ Return(Preflight)
           /\ UNCHANGED <<city, weatherCalls>>
       ELSE IF req.method # "POST" THEN
           /\ Return(ErrorResp(405, "Method not allowed. Use POST."))
           /\ UNCHANGED <<city, weatherCalls>>
       ELSE IF ~req.body.parses THEN
           /\ Return(ErrorResp(400, "Invalid JSON body."))
           /\ UNCHANGED <<city, weatherCalls>>
       ELSE
           /\ city' = cityOf(req.body)
           /\ IF city' = "" THEN
                  /\ Return(ErrorResp(400, "city is required."))
                  /\ UNCHANGED weatherCalls
              ELSE IF env.WEATHER_API_KEY = "" THEN
                  /\ Return(ErrorResp(500, "Missing WEATHER_API_KEY on the server (Edge Function env)."))
                  /\ UNCHANGED weatherCalls
              ELSE
                  /\ pc' = "awaitWeather"
                  /\ weatherCalls' = weatherCalls + 1
                  /\ UNCHANGED resp
    /\ UNCHANGED <<env, req, weatherRes, weather, modelRes, recommendations,
                   openaiCalls, fallbackCalls>>

\* The weather provider answers the fetch.
WeatherResponds(r) ==
    /\ pc = "awaitWeather"
    /\ weatherRes' = r
    /\ pc' = "haveWeather"
    /\ UNCHANGED <<env, req, city, weather, modelRes, recommendations, resp,
                   weatherCalls, openaiCalls, fallbackCalls>>

\* The rest of fetchOpenWeather, then either the model call or the fallback.
OnWeather ==
    /\ pc = "haveWeather"
    /\ LET res == fetchOpenWeather(city, weatherRes)
       IN  IF ~res.ok THEN
               /\ Return(ErrorResp(500, res.err))
               /\ UNCHANGED <<weather, recommendations, openaiCalls, fallbackCalls>>
           ELSE
               /\ weather' = <<res.value>>
               /\ IF env.OPENAI_API_KEY # "" THEN
                      /\ pc' = "awaitModel"
                      /\ openaiCalls' = openaiCalls + 1
                      /\ UNCHANGED <<recommendations, resp, fallbackCalls>>
                  ELSE
                      /\ recommendations' = fallbackRecommendations(res.value, placeOf(req.body))
                      /\ fallbackCalls' = fallbackCalls + 1
                      /\ Return(OkResp(city, res.value, recommendations'))
                      /\ UNCHANGED openaiCalls
    /\ UNCHANGED <<env, req, city, weatherRes, modelRes, weatherCalls>>

\* The model provider answers the fetch.
ModelResponds(r) ==
    /\ pc = "awaitModel"
    /\ modelRes' = r
    /\ pc' = "haveModel"
    /\ UNCHANGED <<env, req, city, weatherRes, weather, recommendations, resp,
                   weatherCalls, openaiCalls, fallbackCalls>>

\* mutant: a failed model call is tried once more before falling back
OnModel_retry ==
    /\ pc = "haveModel"
    /\ LET res == callOpenAI(modelRes)
       IN  IF res.ok THEN
               /\ recommendations' = res.value
               /\ Return(OkResp(city, weather[1], recommendations'))
               /\ UNCHANGED <<fallbackCalls, openaiCalls>>
           ELSE IF openaiCalls < 2 THEN
               /\ pc' = "awaitModel"
               /\ openaiCalls' = openaiCalls + 1
               /\ UNCHANGED <<recommendations, resp, fallbackCalls>>
           ELSE
               /\ recommendations' = fallbackRecommendations(weather[1], placeOf(req.body))
               /\ fallbackCalls' = fallbackCalls + 1
               /\ Return(OkResp(city, weather[1], recommendations'))
               /\ UNCHANGED openaiCalls
    /\ UNCHANGED <<env, req, city, weatherRes, weather, modelRes, weatherCalls>>

\* The rest of callOpenAI, its catch, and the success response.
OnModel ==
    /\ pc = "haveModel"
    /\ LET res == callOpenAI(modelRes)
       IN  IF res.ok THEN
               /\ recommendations' = res.value
               /\ UNCHANGED fallbackCalls
           ELSE
               /\ recommendations' = fallbackRecommendations(weather[1], placeOf(req.body))
               /\ fallbackCalls' = fallbackCalls + 1
    /\ Return(OkResp(city, weather[1], recommendations'))
    /\ UNCHANGED <<env, req, city, weatherRes, weather, modelRes, weatherCalls, openaiCalls>>

\* The response is sent and everything the request built is discarded.
Finish ==
    /\ pc = "done"
    /\ pc' = "idle"
    /\ req' = NoRequest
    /\ city' = ""
    /\ weatherRes' = NoWeatherReply
    /\ weather' = <<>>
    /\ modelRes' = NoModelReply
    /\ recommendations' = <<>>
    /\ resp' = NoResp
    /\ weatherCalls' = 0
    /\ openaiCalls' = 0
    /\ fallbackCalls' = 0
    /\ UNCHANGED env

\* No page is open and no second handler runs.
UiOff == [envOk |-> FALSE, pc |-> "off", city |-> "", place |-> "either",
          loading |-> FALSE, error |-> <<>>, data |-> <<>>,
          sent |-> [city |-> "", place |-> "either"]]

ConcOff == <<>>

Init == HandlerInit /\ ui = UiOff /\ conc = ConcOff

Next ==
    \/ (\E r \in Requests : Arrive(r)) /\ UNCHANGED <<ui, conc>>
    \/ Receive /\ UNCHANGED <<ui, conc>>
    \/ (\E r \in WeatherReplies : WeatherResponds(r)) /\ UNCHANGED <<ui, conc>>
    \/ OnWeather /\ UNCHANGED <<ui, conc>>
    \/ (\E r \in ModelReplies : ModelResponds(r)) /\ UNCHANGED <<ui, conc>>
    \/ OnModel /\ UNCHANGED <<ui, conc>>
    \/ Finish /\ UNCHANGED <<ui, conc>>

Spec == Init /\ [][Next]_vars

\* Progress of the handler does not depend on what the bodies carry beyond
\* the branch they select: the specification for progress draws one request
\* and one reply for each branch of the handler.
LiveRequests ==
    {[method |-> m, body |-> BadBody] : m \in {"OPTIONS", "GET", "POST"}}
    \cup {[method |-> "POST", body |-> Body(TRUE, "obj", c, p)] :
             c \in {Str(" "), Str("I")},
             p \in {NoPrefs, [hasPrefs |-> TRUE, place |-> Str("outdoor")]}}

LiveWeatherReplies ==
    {WeatherReply(k, Absent, Absent, NoSky) : k \in {"network", "status", "notjson"}}
    \cup {WeatherReply("json", t, JNum(Num(WindyAbove)), Sky(Str("Clear"), Absent, NoRain)) :
             t \in {JNum(Num(ColdBelow)), JNum(Num(0)), Absent}}

LiveModelReplies ==
    {ModelReply(k, NoText, NoText) : k \in {"network", "status", "notjson"}}
    \cup {ModelReply("json", NoText, NoText)}
    \cup {ModelReply("json", ArrayText([i \in 1..n |-> GoodItem]), NoText) : n \in {0, MinItems}}

LiveNext ==
    \/ (\E r \in LiveRequests : Arrive(r)) /\ UNCHANGED <<ui, conc>>
    \/ Receive /\ UNCHANGED <<ui, conc>>
    \/ (\E r \in LiveWeatherReplies : WeatherResponds(r)) /\ UNCHANGED <<ui, conc>>
    \/ OnWeather /\ UNCHANGED <<ui, conc>>
    \/ (\E r \in LiveModelReplies : ModelResponds(r)) /\ UNCHANGED <<ui, conc>>
    \/ OnModel /\ UNCHANGED <<ui, conc>>
    \/ Finish /\ UNCHANGED <<ui, conc>>

\* The event loop runs every continuation of the handler that is ready; the
\* upstream services and the callers are under no obligation.
Fairness ==
    /\ WF_vars(Receive /\ UNCHANGED <<ui, conc>>)
    /\ WF_vars(OnWeather /\ UNCHANGED <<ui, conc>>)
    /\ WF_vars(OnModel /\ UNCHANGED <<ui, conc>>)
    /\ WF_vars(Finish /\ UNCHANGED <<ui, conc>>)

LiveSpec == Init /\ [][LiveNext]_vars /\ Fairness

-----------------------------------------------------------------------------
(* Properties *)

Done == pc = "done"
Snapshot == weather[1]
Place == placeOf(req.body)
Fallback == fallbackRecommendations(Snapshot, Place)

\* The model's reply is a well-formed envelope whose recommendations is an array.
IsArrayReply(r) ==
    /\ r.kind = "json"
    /\ \/ r.output_text.k = "str"
       \/ r.nested.k = "str"
    /\ LET t == IF r.output_text.k = "str" THEN r.output_text ELSE r.nested
       IN  t.doc.parses /\ t.doc.value.k = "obj" /\ t.doc.value.recs.k = "array"

ItemsOf(r) ==
    (IF r.output_text.k = "str" THEN r.output_text ELSE r.nested).doc.value.recs.items

\* The failures of the Model-Assisted Generator that the specification lists.
ListedModelFailure(r) == r.kind \in {"network", "status", "notjson", "json"} /\ ~IsArrayReply(r)

\* C1: with a model credential and a weather snapshot, a model call that fails
\* for a listed reason (network, status, no text, unparsable text,
\* recommendations not an array) ends in the success response that carries
\* exactly fallbackRecommendations(weather, preferences.place).
C1_ModelFailureFallsBack ==
    (Done /\ openaiCalls = 1 /\ ListedModelFailure(modelRes))
        => /\ resp = OkResp(city, Snapshot, Fallback)
           /\ resp.status = 200
           /\ resp.error = ""

C1_Witness ==
    /\ Done /\ openaiCalls = 1 /\ modelRes.kind = "status"
    /\ resp.kind = "ok" /\ fallbackCalls = 1 /\ Len(resp.recommendations) >= MinItems

\* C2: every outcome is a success response with 5 to 8 recommendations or an
\* error (or empty preflight) response with none.
C2_FullListOrError ==
    Done => \/ /\ resp.kind = "ok"
               /\ Len(resp.recommendations) \in MinItems..MaxItems
            \/ /\ resp.kind \in {"error", "empty"}
               /\ resp.recommendations = <<>>

\* An item object with a missing or malformed field.
Malformed(it) ==
    /\ it.k = "obj"
    /\ \/ it.title.k # "str"
       \/ it.reason.k # "str"
       \/ it.label \notin {Str("indoor"), Str("outdoor")}
       \/ it.confidence.k # "num"
       \/ it.confidence.n.v % Scale # 0
       \/ it.confidence.n.v < ConfMin * Scale
       \/ it.confidence.n.v > ConfMax * Scale

HasMalformedItem(r) ==
    IsArrayReply(r) /\ \E i \in 1..Len(ItemsOf(r)) : Malformed(ItemsOf(r)[i])

HasNullItem(r) ==
    IsArrayReply(r) /\ \E i \in 1..Len(ItemsOf(r)) : ItemsOf(r)[i].k = "null"

Normalised(c, n) ==
    /\ ~c.nan
    /\ c.v % Scale = 0
    /\ c.v >= ConfMin * Scale /\ c.v <= ConfMax * Scale
    /\ (n.v >= ConfMin * Scale /\ n.v <= ConfMax * Scale)
           => (2 * (c.v - n.v) <= Scale /\ 2 * (n.v - c.v) < Scale)
    /\ n.v < ConfMin * Scale => c.v = ConfMin * Scale
    /\ n.v > ConfMax * Scale => c.v = ConfMax * Scale

PatchedFrom(rec, it) ==
    /\ it.title.k \in {"absent", "null"} => rec.title = ""
    /\ it.reason.k \in {"absent", "null"} => rec.reason = ""
    /\ (it.title.k = "str" /\ Len(it.title.s) <= TitleMax) => rec.title = it.title.s
    /\ (it.reason.k = "str" /\ Len(it.reason.s) <= ReasonMax) => rec.reason = it.reason.s
    /\ Len(rec.title) <= TitleMax /\ Len(rec.reason) <= ReasonMax
    /\ rec.label = (IF it.label = Str("outdoor") THEN "outdoor" ELSE "indoor")
    /\ it.confidence.k \in {"absent", "null"} => rec.confidence = Num(DefaultConfidence)
    /\ it.confidence.k = "num" => Normalised(rec.confidence, it.confidence.n)

IntegerInRange(c) ==
    ~c.nan /\ c.v % Scale = 0 /\ c.v >= ConfMin * Scale /\ c.v <= ConfMax * Scale

\* C4: in every success response every confidence is an integer in [0, 100].
C4_ConfidenceIntegerInRange ==
    (Done /\ resp.kind = "ok")
        => \A i \in 1..Len(resp.recommendations) :
               IntegerInRange(resp.recommendations[i].confidence)

ModelAttemptFailed == ~callOpenAI(modelRes).ok

\* C5: callOpenAI runs at most once and only with a credential; the fallback
\* runs at most once and only without a credential or after the one failed
\* model attempt; a successful model attempt supplies the response's list.
C5_OneShotFallbackChain ==
    /\ openaiCalls <= 1 /\ fallbackCalls <= 1
    /\ openaiCalls = 1 => env.OPENAI_API_KEY # ""
    /\ fallbackCalls = 1 =>
           \/ env.OPENAI_API_KEY = "" /\ openaiCalls = 0
           \/ openaiCalls = 1 /\ Done /\ ModelAttemptFailed
    /\ (Done /\ openaiCalls = 1 /\ ~ModelAttemptFailed)
           => /\ fallbackCalls = 0
              /\ resp.kind = "ok"
              /\ resp.recommendations = callOpenAI(modelRes).value
    /\ (Done /\ openaiCalls = 1 /\ ModelAttemptFailed) => fallbackCalls = 1

C5_Witness ==
    /\ Done /\ openaiCalls = 1 /\ fallbackCalls = 0
    /\ resp.kind = "ok" /\ modelRes.nested.k = "str"
    /\ resp.recommendations[MinItems].title = "Visit the aquarium"

\* The weather collaborator fails: no success status, or no finite
\* temperature and wind speed in the payload.
WeatherFailed(r) ==
    \/ r.kind \in {"network", "status", "notjson"}
    \/ /\ r.kind = "json"
       /\ \/ ToNumber(r.temp).nan
          \/ ToNumber(r.wind).nan

BlankCity(body) ==
    \/ body.k # "obj"
    \/ body.city.k \in {"absent", "null"}
    \/ /\ body.city.k = "str"
       /\ \A i \in 1..Len(body.city.s) : SubSeq(body.city.s, i, i) = " "

\* C7: a request without a city is answered with the InvalidRequest error and
\* neither the weather collaborator nor a generator is called for it.
C7_BlankCityIsInvalidRequest ==
    (pc \notin {"idle", "received"} /\ req.method = "POST" /\ req.body.parses
       /\ BlankCity(req.body))
        => /\ Done
           /\ resp = ErrorResp(400, "city is required.")
           /\ weatherCalls = 0 /\ openaiCalls = 0 /\ fallbackCalls = 0

C7_Witness ==
    /\ Done /\ env.WEATHER_API_KEY # "" /\ req.method = "POST"
    /\ req.body.city.k = "str" /\ Len(req.body.city.s) = MaxCityLen
    /\ resp.error = "city is required."

\* C8: every request that reached the handler eventually gets its response,
\* also when an upstream never replies.
C8_EventuallyResponds == (pc = "received") ~> (pc = "done")

\* C9: preferIndoor holds exactly when it rains, tempC < 8, tempC > 32 or
\* windMps > 10; at 8, at 32 and at wind 10 without rain it does not hold.
C9_PreferIndoorThresholds ==
    weather # <<>> =>
        LET w == Snapshot
            h == ruleHintsFromWeather(w)
        IN  /\ h.preferIndoor <=>
                   \/ w.isRainy
                   \/ w.tempC.v < ColdBelow * Scale
                   \/ w.tempC.v > HotAbove * Scale
                   \/ w.windMps.v > WindyAbove * Scale
            /\ (/\ ~w.isRainy
                /\ w.tempC.v >= ColdBelow * Scale /\ w.tempC.v <= HotAbove * Scale
                /\ w.windMps.v <= WindyAbove * Scale) => ~h.preferIndoor

C9_Witness ==
    /\ Done /\ fallbackCalls = 1
    /\ Snapshot.tempC = Num(ColdBelow) /\ Snapshot.windMps = Num(WindyAbove)
    /\ ~Snapshot.isRainy
    /\ resp.recommendations[1].label = "outdoor"

\* C10: fallbackRecommendations returns 7 entries when preferIndoor holds and
\* place is explicitly outdoor, and 5 entries in every other case.
C10_FallbackLength ==
    weather # <<>> =>
        LET expected == IF ruleHintsFromWeather(Snapshot).preferIndoor /\ Place = Str("outdoor")
                        THEN 7 ELSE 5
        IN  /\ Len(Fallback) = expected
            /\ (Done /\ fallbackCalls = 1) => Len(resp.recommendations) = expected

C10_Witness ==
    /\ Done /\ fallbackCalls = 1 /\ Place = Str("outdoor")
    /\ Len(resp.recommendations) = 7
    /\ resp.recommendations[7].label = "outdoor"

RainNote == "It's rainy--bring a jacket/umbrella and keep it short."
GenericNote == "Weather is not ideal--keep it short and flexible."

\* C11: with preferIndoor and place explicitly outdoor, the fallback list is
\* the 5 indoor pool entries, unmodified and in pool order, then exactly two
\* outdoor entries with confidences 45 and 42, below every pool entry, whose
\* reason is the rain warning when isRainy and the generic warning otherwise;
\* the truncation to 7 removes nothing.
C11_MixedOutdoorList ==
    (weather # <<>> /\ ruleHintsFromWeather(Snapshot).preferIndoor /\ Place = Str("outdoor"))
        => /\ Len(Fallback) = Len(indoor) + 2
           /\ \A i \in 1..Len(indoor) : Fallback[i] = indoor[i]
           /\ \A i \in (Len(indoor) + 1)..Len(Fallback) :
                  /\ Fallback[i].label = "outdoor"
                  /\ Fallback[i].reason = (IF Snapshot.isRainy THEN RainNote ELSE GenericNote)
                  /\ \A j \in 1..Len(indoor) : Fallback[i].confidence.v < indoor[j].confidence.v
           /\ {Fallback[i].confidence : i \in (Len(indoor) + 1)..Len(Fallback)}
                  = {Num(42), Num(45)}
           /\ (Done /\ fallbackCalls = 1) => resp.recommendations = Fallback

C11_Witness ==
    /\ Done /\ fallbackCalls = 1 /\ Place = Str("outdoor") /\ Snapshot.isRainy
    /\ Len(resp.recommendations) = 7
    /\ resp.recommendations[1].title = "Coffee + a book"
    /\ resp.recommendations[6].reason = RainNote

\* The target as the claim defines it.
ClaimedTarget ==
    IF ruleHintsFromWeather(Snapshot).preferIndoor THEN "indoor"
    ELSE IF Place = Str("indoor") THEN "indoor"
    ELSE "outdoor"

\* C12: outside the case (preferIndoor and place explicitly outdoor) every
\* entry of the fallback list carries the one label target, and there are no
\* warning entries: the list is the pool of that label.
C12_UniformLabel ==
    (weather # <<>> /\ ~(ruleHintsFromWeather(Snapshot).preferIndoor /\ Place = Str("outdoor")))
        => /\ \A i \in 1..Len(Fallback) : Fallback[i].label = ClaimedTarget
           /\ Fallback = (IF ClaimedTarget = "indoor" THEN indoor ELSE outdoor)
           /\ (Done /\ fallbackCalls = 1) => resp.recommendations = Fallback

C12_Witness ==
    /\ Done /\ fallbackCalls = 1 /\ Place = Str("indoor")
    /\ ~ruleHintsFromWeather(Snapshot).preferIndoor
    /\ \A i \in 1..Len(resp.recommendations) : resp.recommendations[i].label = "indoor"

\* Snapshots that differ from w only in the city and the condition text.
SameReadings(w) ==
    {[w EXCEPT !.city = c, !.condition = t] :
        c \in {"I", "Izmir"}, t \in {"Clear", "Rain", "unknown"}}

\* The fallback list as a function of the three readings and the place alone.
FallbackOf(tempC, windMps, isRainy, place) ==
    fallbackRecommendations(
        [provider |-> "openweather", city |-> "", tempC |-> tempC, windMps |-> windMps,
         condition |-> "", isRainy |-> isRainy], place)

\* C14: the fallback list depends only on tempC, windMps, isRainy and place:
\* neither the city nor the condition text changes it, and whatever requests
\* came before, the list a request gets is that function of its own readings.
C14_FallbackDependsOnReadingsOnly ==
    weather # <<>> =>
        /\ \A w \in SameReadings(Snapshot) : fallbackRecommendations(w, Place) = Fallback
        /\ (Done /\ fallbackCalls = 1) =>
               resp.recommendations =
                   FallbackOf(Snapshot.tempC, Snapshot.windMps, Snapshot.isRainy, Place)

C14_Witness ==
    /\ Done /\ fallbackCalls = 1 /\ Place = Str("outdoor")
    /\ Snapshot.isRainy /\ Snapshot.condition = "Clouds"
    /\ resp.recommendations[7].reason = RainNote

\* C15: every recommendation of every success response is labelled indoor or
\* outdoor, whatever label the model returned.
C15_LabelIndoorOrOutdoor ==
    (Done /\ resp.kind = "ok")
        => \A i \in 1..Len(resp.recommendations) :
               resp.recommendations[i].label \in {"indoor", "outdoor"}

C15_Witness ==
    /\ Done /\ openaiCalls = 1 /\ fallbackCalls = 0 /\ resp.kind = "ok"
    /\ IsArrayReply(modelRes) /\ Len(ItemsOf(modelRes)) = MinItems
    /\ ItemsOf(modelRes)[1].label = Str("Outdoor")
    /\ resp.recommendations[1].label = "indoor"

NoteTexts ==
    << "Yagis var: dis mekan onerilerini azalt.",
       "Soguk: uzun outdoor aktiviteleri azalt.",
       "Sicak: golge/klimali secenekleri artir.",
       "Ruzgarli: yuruyus/park yerine indoor agirlik ver." >>

\* The conditions of a snapshot in the order rain, cold, hot, windy.
ActiveConditions(w) ==
    {i \in 1..4 :
        \/ i = 1 /\ w.isRainy
        \/ i = 2 /\ w.tempC.v < ColdBelow * Scale
        \/ i = 3 /\ w.tempC.v > HotAbove * Scale
        \/ i = 4 /\ w.windMps.v > WindyAbove * Scale}

\* C16: notes holds one entry for each active condition and no other, in the
\* order rain, cold, hot, windy, and is empty exactly when preferIndoor is
\* false.
C16_NotesPerActiveCondition ==
    weather # <<>> =>
        LET h == ruleHintsFromWeather(Snapshot)
            active == ActiveConditions(Snapshot)
        IN  /\ Len(h.notes) = Cardinality(active)
            /\ \A k \in 1..Len(h.notes) :
                   \E i \in active :
                       /\ Cardinality({j \in active : j < i}) = k - 1
                       /\ h.notes[k] = NoteTexts[i]
            /\ (h.notes = <<>>) <=> ~h.preferIndoor
            /\ promptRules(Snapshot).notes = h.notes

C16_Witness ==
    /\ pc = "awaitModel" /\ openaiCalls = 1
    /\ Snapshot.isRainy /\ Snapshot.tempC.v < ColdBelow * Scale
    /\ Snapshot.windMps.v > WindyAbove * Scale
    /\ Len(promptRules(Snapshot).notes) = 3


\* ---------------------------------------------------------------------------
\* The App component (web): its React state and onRecommend.
\* ---------------------------------------------------------------------------

\* useState<string | null>(null), useState<RecommendResponse | null>(null):
\* <<>> is null, <<x>> is the value x.
Unset == <<>>

Shown(x) == <<x>>

\* What the city field can hold: the initial text, nothing, blanks, a letter.
AppCities == {"Istanbul", "", " ", "I"}

PlacePrefs == {"indoor", "outdoor", "either"}

\* The body of a RecommendResponse as far as the page tells them apart.
AppResponses == {[city |-> c, source |-> src] : c \in {"Istanbul", "I"}, src \in {"openai", "fallback"}}

\* What `await supabase.functions.invoke(...)` settles with: a pair
\* {data, error}, or a rejection with a thrown value.
ErrorOf(m) == [k |-> "Error", s |-> m]

Settled(d, e) == [k |-> "settled", data |-> d, error |-> e, thrown |-> ErrorOf("")]

Rejected(e) == [k |-> "rejected", data |-> Unset, error |-> Unset, thrown |-> e]

ErrorMessages ==
    {"Failed to send a request to the Edge Function",
     "Edge Function returned a non-2xx status code",
     "connect ECONNREFUSED 127.0.0.1:54321",
     "net::ERR_CONNECTION_REFUSED",
     ""}

ThrownValues ==
    {ErrorOf(m) : m \in ErrorMessages}
        \cup {[k |-> "string", s |-> "timeout"], [k |-> "string", s |-> ""], [k |-> "other", s |-> ""]}

InvokeResults ==
    {Settled(Shown(d), Unset) : d \in AppResponses}
        \cup {Settled(Unset, Unset)}
        \cup {Settled(Unset, Shown(ErrorOf(m))) : m \in ErrorMessages}
        \cup {Rejected(e) : e \in ThrownValues}

ClientMissing == "Could not create Supabase client."

\* The message of readPublicEnv when a variable is missing.
EnvMessage == "Missing env: create web/.env.local and set VITE_SUPABASE_URL and VITE_SUPABASE_ANON_KEY. (Vite only exposes VITE_* variables to the browser.)"

EmptyCity == "City cannot be empty."

Unreachable == "Could not reach the Edge Function (connection refused). If you are using local Supabase, start Docker, then run npx supabase start and npx supabase functions serve recommend ...."

\* e instanceof Error ? e.message : typeof e === "string" ? e : "Unknown error"
rawOf(e) == IF e.k = "Error" THEN e.s ELSE IF e.k = "string" THEN e.s ELSE "Unknown error"

\* The catch block's message.
caughtMessage(e) ==
    LET raw == rawOf(e)
    IN  IF \/ Contains(raw, "Failed to send a request to the Edge Function")
           \/ Contains(raw, "ERR_CONNECTION_REFUSED")
           \/ Contains(raw, "ECONNREFUSED")
        THEN Unreachable
        ELSE IF raw # "" THEN raw ELSE "Something went wrong."

\* The page is mounted: the form's defaults, nothing loading, shown or failed.
\* envOk is env.ok, and the client `supabase` exists exactly when it holds.
AppInit ==
    /\ env = [WEATHER_API_KEY |-> "wk", OPENAI_API_KEY |-> "sk"]
    /\ pc = "idle"
    /\ req = NoRequest
    /\ city = ""
    /\ weatherRes = NoWeatherReply
    /\ weather = <<>>
    /\ modelRes = NoModelReply
    /\ recommendations = <<>>
    /\ resp = NoResp
    /\ weatherCalls = 0
    /\ openaiCalls = 0
    /\ fallbackCalls = 0
    /\ conc = ConcOff
    /\ \E ok \in BOOLEAN :
        ui = [envOk |-> ok, pc |-> "idle", city |-> "Istanbul", place |-> "either",
              loading |-> FALSE, error |-> Unset, data |-> Unset,
              sent |-> [city |-> "", place |-> "either"]]

\* onChange={(e) => setCity(e.target.value)}
TypeCity(c) ==
    /\ ui.pc # "off"
    /\ ui.city # c
    /\ ui' = [ui EXCEPT !.city = c]
    /\ UNCHANGED <<hvars, conc>>

\* onChange={setPlace}
PickPlace(p) ==
    /\ ui.pc # "off"
    /\ ui.place # p
    /\ ui' = [ui EXCEPT !.place = p]
    /\ UNCHANGED <<hvars, conc>>

\* onRecommend up to its await. The button that calls it is
\* disabled={loading || !supabase}.
Click ==
    /\ ui.pc = "idle"
    /\ ~(ui.loading \/ ~ui.envOk)
    /\ LET supabase == ui.envOk
           c == Trim(ui.city)
       IN  IF ~supabase
           THEN ui' = [ui EXCEPT !.error = Shown(IF ui.envOk THEN ClientMissing ELSE EnvMessage)]
           ELSE IF c = ""
           THEN ui' = [ui EXCEPT !.error = Shown(EmptyCity)]
           ELSE ui' = [ui EXCEPT !.loading = TRUE, !.error = Unset, !.data = Unset,
                                 !.pc = "invoking",
                                 !.sent = [city |-> c, place |-> ui.place]]
    /\ UNCHANGED <<hvars, conc>>

\* onRecommend from the await on: try, catch and finally.
InvokeSettles(r) ==
    /\ ui.pc = "invoking"
    /\ LET thrown == IF r.k = "rejected" THEN Shown(r.thrown)
                     ELSE IF r.error # Unset THEN r.error
                     ELSE IF r.data = Unset THEN Shown(ErrorOf("Empty response."))
                     ELSE Unset
           afterTry == IF thrown = Unset THEN [ui EXCEPT !.data = r.data]
                       ELSE [ui EXCEPT !.error = Shown(caughtMessage(thrown[1]))]
       IN  ui' = [afterTry EXCEPT !.loading = FALSE, !.pc = "idle"]
    /\ UNCHANGED <<hvars, conc>>

AppNext ==
    \/ \E c \in AppCities : TypeCity(c)
    \/ \E p \in PlacePrefs : PickPlace(p)
    \/ Click
    \/ \E r \in InvokeResults : InvokeSettles(r)

AppSpec == AppInit /\ [][AppNext]_vars

\* C17: in the App component the error message and the recommendation result
\* are never both set, so a shown error never stands beside the result of an
\* earlier request, and loading is false whenever onRecommend is not running.
C17_ErrorAndResultExclusive ==
    /\ ~(ui.error # Unset /\ ui.data # Unset)
    /\ (ui.pc = "idle" => ~ui.loading)


\* ---------------------------------------------------------------------------
\* Several requests handled at once. Deno.serve calls the handler once per
\* request; every `const` and `let` of the handler belongs to that call, and
\* the module itself holds only corsHeaders and Deno.env, which are not written.
\* ---------------------------------------------------------------------------

NumRequests == 2

Handlers == 1..NumRequests

\* The locals of a call that has not started.
Fresh ==
    [pc |-> "idle", req |-> NoRequest, city |-> "", weatherRes |-> NoWeatherReply,
     weather |-> <<>>, modelRes |-> NoModelReply, recommendations |-> <<>>,
     resp |-> NoResp]

Returned(l, r) == [l EXCEPT !.resp = r, !.pc = "done"]

\* mutant: `weather` is declared at module level, so a call reads the snapshot
\* another call stored there when one is in flight
weatherRead_shared(c, i) ==
    IF \E j \in DOMAIN c : j # i /\ c[j].weather # <<>>
    THEN c[CHOOSE j \in DOMAIN c : j # i /\ c[j].weather # <<>>].weather[1]
    ELSE c[i].weather[1]

\* `weather` as call i reads it after its own `const weather = await ...`.
weatherRead(c, i) == c[i].weather[1]

\* Call i from the top of the handler to its first return or the weather fetch.
receiveOf(e, c, i) ==
    LET l == c[i]
        cty == cityOf(l.req.body)
    IN  IF l.req.method = "OPTIONS" THEN Returned(l, Preflight)
        ELSE IF l.req.method # "POST" THEN Returned(l, ErrorResp(405, "Method not allowed. Use POST."))
        ELSE IF ~l.req.body.parses THEN Returned(l, ErrorResp(400, "Invalid JSON body."))
        ELSE IF cty = "" THEN Returned([l EXCEPT !.city = cty], ErrorResp(400, "city is required."))
        ELSE IF e.WEATHER_API_KEY = ""
        THEN Returned([l EXCEPT !.city = cty],
                      ErrorResp(500, "Missing WEATHER_API_KEY on the server (Edge Function env)."))
        ELSE [l EXCEPT !.city = cty, !.pc = "awaitWeather"]

\* Call i after the weather provider answered.
onWeatherOf(e, c, i) ==
    LET l == c[i]
        res == fetchOpenWeather(l.city, l.weatherRes)
        stored == [c EXCEPT ![i].weather = <<res.value>>]
        recs == fallbackRecommendations(weatherRead(stored, i), placeOf(l.req.body))
    IN  IF ~res.ok THEN Returned(l, ErrorResp(500, res.err))
        ELSE IF e.OPENAI_API_KEY # "" THEN [stored[i] EXCEPT !.pc = "awaitModel"]
        ELSE Returned([stored[i] EXCEPT !.recommendations = recs],
                      OkResp(l.city, weatherRead(stored, i), recs))

\* Call i after the model provider answered.
onModelOf(c, i) ==
    LET l == c[i]
        res == callOpenAI(l.modelRes)
        recs == IF res.ok THEN res.value
                ELSE fallbackRecommendations(weatherRead(c, i), placeOf(l.req.body))
    IN  Returned([l EXCEPT !.recommendations = recs], OkResp(l.city, weatherRead(c, i), recs))

\* The response of a request handled with no other call in flight, given what
\* the two providers answer.
HandledAlone(e, r, wr, mr) ==
    LET c0 == <<[Fresh EXCEPT !.req = r, !.pc = "received"]>>
        c1 == <<receiveOf(e, c0, 1)>>
        c2 == IF c1[1].pc # "awaitWeather" THEN c1
              ELSE <<onWeatherOf(e, <<[c1[1] EXCEPT !.weatherRes = wr, !.pc = "haveWeather"]>>, 1)>>
        c3 == IF c2[1].pc # "awaitModel" THEN c2
              ELSE <<onModelOf(<<[c2[1] EXCEPT !.modelRes = mr, !.pc = "haveModel"]>>, 1)>>
    IN  c3[1].resp

\* One request of each kind, one provider answer for each branch.
ConcRequests ==
    { [method |-> "GET", body |-> BadBody],
      [method |-> "POST", body |-> Body(TRUE, "obj", Str("I"), NoPrefs)],
      [method |-> "POST", body |-> Body(TRUE, "obj", Str("I"), [hasPrefs |-> TRUE, place |-> Str("outdoor")])] }

ConcWeatherReplies ==
    { WeatherReply("status", Absent, Absent, NoSky),
      WeatherReply("json", JNum(Num(0)), JNum(Num(WindyAbove)), Sky(Str("Clear"), Absent, NoRain)),
      WeatherReply("json", Str("21"), JNum(Fix(WindyAbove * Scale + 1)),
                   Sky(Str("Rain"), Str("light rain"), NoRain)) }

ConcModelReplies ==
    { ModelReply("network", NoText, NoText),
      ModelReply("json", ArrayText([k \in 1..MinItems |-> GoodItem]), NoText) }

ConcInit ==
    /\ HandlerInit
    /\ ui = UiOff
    /\ conc = [i \in Handlers |-> Fresh]

ArriveAt(i, r) ==
    /\ conc[i].pc = "idle"
    /\ conc' = [conc EXCEPT ![i] = [Fresh EXCEPT !.req = r, !.pc = "received"]]
    /\ UNCHANGED <<hvars, ui>>

ReceiveAt(i) ==
    /\ conc[i].pc = "received"
    /\ conc' = [conc EXCEPT ![i] = receiveOf(env, conc, i)]
    /\ UNCHANGED <<hvars, ui>>

WeatherRespondsAt(i, r) ==
    /\ conc[i].pc = "awaitWeather"
    /\ conc' = [conc EXCEPT ![i].weatherRes = r, ![i].pc = "haveWeather"]
    /\ UNCHANGED <<hvars, ui>>

OnWeatherAt(i) ==
    /\ conc[i].pc = "haveWeather"
    /\ conc' = [conc EXCEPT ![i] = onWeatherOf(env, conc, i)]
    /\ UNCHANGED <<hvars, ui>>

ModelRespondsAt(i, r) ==
    /\ conc[i].pc = "awaitModel"
    /\ conc' = [conc EXCEPT ![i].modelRes = r, ![i].pc = "haveModel"]
    /\ UNCHANGED <<hvars, ui>>

OnModelAt(i) ==
    /\ conc[i].pc = "haveModel"
    /\ conc' = [conc EXCEPT ![i] = onModelOf(conc, i)]
    /\ UNCHANGED <<hvars, ui>>

FinishAt(i) ==
    /\ conc[i].pc = "done"
    /\ conc' = [conc EXCEPT ![i] = Fresh]
    /\ UNCHANGED <<hvars, ui>>

ConcNext ==
    \E i \in Handlers :
        \/ \E r \in ConcRequests : ArriveAt(i, r)
        \/ ReceiveAt(i)
        \/ \E r \in ConcWeatherReplies : WeatherRespondsAt(i, r)
        \/ OnWeatherAt(i)
        \/ \E r \in ConcModelReplies : ModelRespondsAt(i, r)
        \/ OnModelAt(i)
        \/ FinishAt(i)

ConcSpec == ConcInit /\ [][ConcNext]_vars

\* C13: however the calls interleave, the response of each request is the one
\* it would get if it were handled alone with the same provider answers.
C13_RequestsIndependent ==
    \A i \in Handlers :
        conc[i].pc = "done" =>
            conc[i].resp = HandledAlone(env, conc[i].req, conc[i].weatherRes, conc[i].modelRes)

\* One request has returned a fallback list for its own snapshot while another,
\* holding a different snapshot, is still waiting for the model.
C13_Witness ==
    \E i, j \in Handlers :
        /\ i # j
        /\ conc[i].pc = "done" /\ conc[i].resp.kind = "ok"
        /\ ~callOpenAI(conc[i].modelRes).ok
        /\ conc[j].pc = "awaitModel"
        /\ conc[j].weather # conc[i].weather

\* The one handler of Spec and a call of ConcSpec compute the same response.
SameAsAlone == Done => resp = HandledAlone(env, req, weatherRes, modelRes)

====
